---- MODULE Spec2Model ----
(***************************************************************************)
(* Model of the NSQ broker adapter, src/broker/nsq/nsq.go.                 *)
(*                                                                         *)
(* The broker struct (running, p, c, lookupdHTTPAddrs, nsqdTCPAddrs and    *)
(* the embedded mutex) is the shared state.  Callers are goroutines; each  *)
(* one runs one broker method at a time and the methods are split at the   *)
(* points where another goroutine can see or change the shared fields.     *)
(* The go-nsq client is the environment: producers and consumers are       *)
(* handles in two heaps, and the calls that can fail (NewProducer, Ping,   *)
(* NewConsumer, ConnectToNSQDs, ConnectToNSQLookupds, the send calls, the  *)
(* codec) fail or succeed nondeterministically.                            *)
(***************************************************************************)
EXTENDS Integers, Sequences, FiniteSets, TLC

\* ---------------------------------------------------------------- bounds
\* calls that open handles: Connect calls that find running false, and
\* Subscribe calls with a valid topic
MaxCalls == 3
\* Ack() calls a handler makes on one publication
MaxAcks == 2

\* ------------------------------------------------------ program constants
DefaultConcurrentHandlers == 1
\* MaxInFlight of the shared nsq.Config made by nsq.NewConfig()
ConfigMaxInFlight == 1

\* the goroutines calling into the broker
Threads == {"g1", "g2"}
NoOne == "none"

DefaultAddr == "127.0.0.1:4150"
\* options.Addrs values handed to NewBroker
AddrOptions == {<< >>, <<"a", "", "b">>}
\* values of the lookupd addresses option handed to Init
LookupdOptions == {<< >>, <<"l">>}
\* topic names handed to Subscribe; "" is not a valid topic name
Topics == {"orders", ""}
\* the options of a Subscribe call: Queue is the group name ("": none was
\* supplied), AutoAck the acknowledgement mode (true unless the caller
\* turned it off), conc the concurrency option and mif the max-in-flight
\* option (0: the option is absent)
SubscribeInputs ==
    {[Queue |-> "", AutoAck |-> TRUE, conc |-> 0, mif |-> 0],
     [Queue |-> "grp", AutoAck |-> FALSE, conc |-> 4, mif |-> 2]}
\* every combination of the concurrency and max-in-flight options
AllSubscribeInputs ==
    [Queue : {"grp"}, AutoAck : {TRUE}, conc : {0, 4}, mif : {0, 2, 6}]

\* the options of a Publish call: async says that an async completion
\* channel was supplied, delay is the deferred-delivery duration (0: none
\* was supplied)
AllPublishInputs == [async : BOOLEAN, delay : {-1, 0, 5}]

VARIABLES
    nsqdTCPAddrs,      \* nsqBroker.nsqdTCPAddrs
    lookupdHTTPAddrs,  \* nsqBroker.lookupdHTTPAddrs
    lock,              \* nsqBroker.Mutex: the goroutine holding it, or NoOne
    running,           \* nsqBroker.running
    p,                 \* nsqBroker.p: sequence of producer handles
    c,                 \* nsqBroker.c: sequence of *subscriber
    subscribers,       \* heap of subscriber structs, indexed by pointer
    producers,         \* heap of nsq.Producer handles
    consumers,         \* heap of nsq.Consumer handles
    calls,             \* number of calls so far that went on to open handles
    aborted,           \* the process died of an unrecovered panic
    th,                \* per goroutine: position and locals of the running call
    nm                 \* the nsq.Message a consumer is handing to its handler

vars == <<nsqdTCPAddrs, lookupdHTTPAddrs, lock, running, p, c, subscribers,
          producers, consumers, calls, aborted, th, nm>>

\* ------------------------------------------------------------- helpers
RECURSIVE NonEmptyAddrs(_)
\* NewBroker: keep the addresses of non-zero length
NonEmptyAddrs(as) ==
    IF as = << >> THEN << >>
    ELSE IF Len(Head(as)) > 0 THEN <<Head(as)>> \o NonEmptyAddrs(Tail(as))
    ELSE NonEmptyAddrs(Tail(as))

\* NewBroker: the address list of the constructed broker
NewBrokerAddrs(as) ==
    IF Len(NonEmptyAddrs(as)) = 0 THEN <<DefaultAddr>> ELSE NonEmptyAddrs(as)

\* locals of a goroutine that is not inside a call.  pc is the position, res
\* the value the call is about to return, lp the local slice "producers" of
\* Connect (in Publish: the n.p it read), rng and i the slice and position
\* of the running range loop, sub the record Subscribe built.  newp and newc
\* are the producer and consumer handles the call has opened so far, and
\* cfail says that creating or attaching a consumer has failed in the call.
\* popts are the options of the Publish call and sent the sends it has
\* invoked on producer handles.
Idle == [pc |-> "idle", res |-> "none", lp |-> << >>, rng |-> << >>,
         i |-> 0, sub |-> 0, newp |-> {}, newc |-> {}, cfail |-> FALSE,
         popts |-> << >>, sent |-> << >>]

\* no message is being handled.  Of a message, h is the dispatch handler it
\* was given to and bodyOk says that its body decodes; autoResponse is the
\* client's automatic acknowledgement, handled counts the calls of the
\* caller's handler, finished the calls of nm.Finish(), acked the Ack()
\* calls the caller's handler made; hres is what the caller's handler
\* returned and res what the dispatch handler returned.
NoMessage == [pc |-> "none", h |-> 0, bodyOk |-> FALSE, autoResponse |-> TRUE,
              handled |-> 0, finished |-> 0, acked |-> 0, hres |-> "none",
              res |-> "none"]

\* channel name: the caller's group name, or uuid + "#ephemeral"
Channel(queue, uuid) ==
    IF Len(queue) = 0 THEN [name |-> "", uuid |-> uuid, ephemeral |-> TRUE]
    ELSE [name |-> queue, uuid |-> 0, ephemeral |-> FALSE]

\* nsq.Consumer.Stop / nsq.Producer.Stop on handle h of heap
Stop(heap, h) == [heap EXCEPT ![h].stopped = TRUE]

RECURSIVE StopAll(_, _)
\* Stop on every handle of the sequence hs
StopAll(heap, hs) ==
    IF hs = << >> THEN heap ELSE StopAll(Stop(heap, Head(hs)), Tail(hs))

\* nsq.NewConsumer rejects a topic name that is not 1..64 name characters
ValidTopicName(topic) == Len(topic) > 0

\* NewBroker, then Init with the lookupd option
Init ==
    /\ \E as \in AddrOptions : nsqdTCPAddrs = NewBrokerAddrs(as)
    /\ \E v \in LookupdOptions : lookupdHTTPAddrs = v
    /\ lock = NoOne
    /\ running = FALSE
    /\ p = << >>
    /\ c = << >>
    /\ subscribers = << >>
    /\ producers = << >>
    /\ consumers = << >>
    /\ calls = 0
    /\ aborted = FALSE
    /\ th = [t \in Threads |-> Idle]
    /\ nm = NoMessage

\* --------------------------------------------------------------- Connect
\* a mutex that never blocks
LockFree_Always == TRUE

\* n.Lock() returns once no goroutine holds the mutex
LockFree == lock = NoOne

\* a Connect without the running check: it opens one more producer
ConnectNoop_Reopens(t) ==
    /\ th' = [th EXCEPT ![t] = [Idle EXCEPT !.pc = "conn_ret", !.res = "ok",
                                !.newp = {Len(producers) + 1}]]
    /\ producers' = Append(producers,
                           [addr |-> nsqdTCPAddrs[1], stopped |-> FALSE])
    /\ UNCHANGED calls

\* "if n.running { return nil }": nothing is opened
ConnectNoop(t) ==
    /\ th' = [th EXCEPT ![t] = [Idle EXCEPT !.pc = "conn_ret", !.res = "ok"]]
    /\ UNCHANGED <<calls, producers>>

\* the producer loop, which no other goroutine can see: k producers are
\* created and pinged, and when k is short of the address count the next one
\* fails in NewProducer or in Ping and Connect returns the error.  When all
\* are made, "range n.c" reads the slice the consumer loop walks.
ConnectOpen(t) ==
    /\ calls < MaxCalls
    /\ calls' = calls + 1
    /\ \E k \in 0..Len(nsqdTCPAddrs), pingFails \in BOOLEAN :
        LET made == IF k < Len(nsqdTCPAddrs) /\ pingFails THEN k + 1 ELSE k
            new == [j \in 1..made |->
                      [addr |-> nsqdTCPAddrs[j], stopped |-> FALSE]]
            base == Len(producers)
        IN  /\ (k = Len(nsqdTCPAddrs)) => ~pingFails
            /\ producers' = producers \o new
            /\ IF k < Len(nsqdTCPAddrs)
               THEN th' = [th EXCEPT ![t] = [Idle EXCEPT
                             !.pc = "conn_ret", !.res = "err",
                             !.newp = (base + 1)..(base + made)]]
               ELSE th' = [th EXCEPT ![t] = [Idle EXCEPT
                             !.pc = "conn_cons",
                             !.lp = [j \in 1..k |-> base + j],
                             !.newp = (base + 1)..(base + made),
                             !.rng = c,
                             !.i = 1]]

\* Connect from n.Lock() to the start of the consumer loop
ConnectEnter(t) ==
    /\ ~aborted
    /\ th[t].pc = "idle"
    /\ LockFree
    /\ lock' = t
    /\ IF running THEN ConnectNoop(t) ELSE ConnectOpen(t)
    /\ UNCHANGED <<nm, nsqdTCPAddrs, lookupdHTTPAddrs, running, p, c, subscribers,
                   consumers, aborted>>

\* a Connect that builds the consumer but hands it no handler
ConnectNewConsumer_NoHandler(rec, cm) ==
    [topic |-> rec.topic,
     channel |-> Channel(rec.opts.Queue, cm),
     h |-> 0,
     n |-> rec.n,
     mif |-> ConfigMaxInFlight,
     stopped |-> FALSE]

\* a Connect that attaches the handler with the default concurrency
ConnectNewConsumer_DefaultConcurrency(rec, cm) ==
    [topic |-> rec.topic,
     channel |-> Channel(rec.opts.Queue, cm),
     h |-> rec.h,
     n |-> DefaultConcurrentHandlers,
     mif |-> ConfigMaxInFlight,
     stopped |-> FALSE]

\* the consumer Connect makes for a record: NewConsumer(c.topic, channel,
\* n.config) with a new ephemeral channel name when the record has no group
\* name, then AddConcurrentHandlers(c.h, c.n); cm is the new handle
ConnectNewConsumer(rec, cm) ==
    [topic |-> rec.topic,
     channel |-> Channel(rec.opts.Queue, cm),
     h |-> rec.h,
     n |-> rec.n,
     mif |-> ConfigMaxInFlight,
     stopped |-> FALSE]

\* one iteration of "for _, c := range n.c": the consumer of record rng[i] is
\* re-created, stored in the record and attached.  An error of NewConsumer
\* or of ConnectToNSQDs is returned; the result of ConnectToNSQLookupds is
\* not looked at.
ConnectConsumer(t) ==
    /\ ~aborted
    /\ th[t].pc = "conn_cons"
    /\ th[t].i <= Len(th[t].rng)
    /\ LET s == th[t].rng[th[t].i]
           cm == Len(consumers) + 1
       IN  \E newOk \in BOOLEAN, attachOk \in BOOLEAN :
             IF ~newOk
             THEN /\ attachOk
                  /\ th' = [th EXCEPT ![t].pc = "conn_ret", ![t].res = "err",
                                      ![t].cfail = TRUE]
                  /\ UNCHANGED <<consumers, subscribers>>
             ELSE /\ consumers' =
                        Append(consumers, ConnectNewConsumer(subscribers[s], cm))
                  /\ subscribers' = [subscribers EXCEPT ![s].c = cm]
                  /\ IF Len(lookupdHTTPAddrs) > 0 \/ attachOk
                     THEN th' = [th EXCEPT ![t].i = th[t].i + 1,
                                   ![t].newc = th[t].newc \union {cm},
                                   ![t].cfail = th[t].cfail \/ ~attachOk]
                     ELSE th' = [th EXCEPT ![t].pc = "conn_ret",
                                   ![t].res = "err",
                                   ![t].newc = th[t].newc \union {cm},
                                   ![t].cfail = TRUE]
    /\ UNCHANGED <<nm, nsqdTCPAddrs, lookupdHTTPAddrs, lock, running, p, c,
                   producers, calls, aborted>>

\* a Connect that stores the producers and leaves running false
ConnectCommit_ForgetsRunning(t) ==
    /\ ~aborted
    /\ th[t].pc = "conn_cons"
    /\ th[t].i > Len(th[t].rng)
    /\ p' = th[t].lp
    /\ th' = [th EXCEPT ![t].pc = "conn_ret", ![t].res = "ok"]
    /\ UNCHANGED <<nm, nsqdTCPAddrs, lookupdHTTPAddrs, lock, running, c,
                   subscribers, producers, consumers, calls, aborted>>

\* n.p = producers; n.running = true; return nil, once the consumer loop
\* has run off its end (running is read under the lock only)
ConnectCommit(t) ==
    /\ ~aborted
    /\ th[t].pc = "conn_cons"
    /\ th[t].i > Len(th[t].rng)
    /\ p' = th[t].lp
    /\ running' = TRUE
    /\ th' = [th EXCEPT ![t].pc = "conn_ret", ![t].res = "ok"]
    /\ UNCHANGED <<nm, nsqdTCPAddrs, lookupdHTTPAddrs, lock, c, subscribers,
                   producers, consumers, calls, aborted>>

\* the deferred n.Unlock() and the return to the caller
ConnectReturn(t) ==
    /\ ~aborted
    /\ th[t].pc = "conn_ret"
    /\ lock' = NoOne
    /\ th' = [th EXCEPT ![t] = Idle]
    /\ UNCHANGED <<nm, nsqdTCPAddrs, lookupdHTTPAddrs, running, p, c, subscribers,
                   producers, consumers, calls, aborted>>

\* ------------------------------------------------------------ Disconnect
\* n.Lock(); if !n.running { return nil }; then every producer of n.p is
\* stopped and "range n.c" reads the slice the consumer loop walks
DisconnectEnter(t) ==
    /\ ~aborted
    /\ th[t].pc = "idle"
    /\ LockFree
    /\ lock' = t
    /\ IF ~running
       THEN /\ th' = [th EXCEPT ![t] = [Idle EXCEPT !.pc = "disc_ret",
                                        !.res = "ok"]]
            /\ UNCHANGED producers
       ELSE /\ producers' = StopAll(producers, p)
            /\ th' = [th EXCEPT ![t] = [Idle EXCEPT !.pc = "disc_cons",
                                        !.rng = c, !.i = 1]]
    /\ UNCHANGED <<nm, nsqdTCPAddrs, lookupdHTTPAddrs, running, p, c, subscribers,
                   consumers, calls, aborted>>

\* one iteration of "for _, c := range n.c": c.c.Stop(), then the detach
\* from every lookupd or nsqd address, which leaves the handle stopped
DisconnectConsumer(t) ==
    /\ ~aborted
    /\ th[t].pc = "disc_cons"
    /\ th[t].i <= Len(th[t].rng)
    /\ LET cm == subscribers[th[t].rng[th[t].i]].c
       IN  consumers' = Stop(consumers, cm)
    /\ th' = [th EXCEPT ![t].i = th[t].i + 1]
    /\ UNCHANGED <<nm, nsqdTCPAddrs, lookupdHTTPAddrs, lock, running, p, c,
                   subscribers, producers, calls, aborted>>

\* n.p = nil
DisconnectSetP(t) ==
    /\ ~aborted
    /\ th[t].pc = "disc_cons"
    /\ th[t].i > Len(th[t].rng)
    /\ p' = << >>
    /\ th' = [th EXCEPT ![t].pc = "disc_setrun"]
    /\ UNCHANGED <<nm, nsqdTCPAddrs, lookupdHTTPAddrs, lock, running, c,
                   subscribers, producers, consumers, calls, aborted>>

\* n.running = false; return nil
DisconnectSetRunning(t) ==
    /\ ~aborted
    /\ th[t].pc = "disc_setrun"
    /\ running' = FALSE
    /\ th' = [th EXCEPT ![t].pc = "disc_ret", ![t].res = "ok"]
    /\ UNCHANGED <<nm, nsqdTCPAddrs, lookupdHTTPAddrs, lock, p, c, subscribers,
                   producers, consumers, calls, aborted>>

\* the deferred n.Unlock() and the return to the caller
DisconnectReturn(t) ==
    /\ ~aborted
    /\ th[t].pc = "disc_ret"
    /\ lock' = NoOne
    /\ th' = [th EXCEPT ![t] = Idle]
    /\ UNCHANGED <<nm, nsqdTCPAddrs, lookupdHTTPAddrs, running, p, c, subscribers,
                   producers, consumers, calls, aborted>>

\* --------------------------------------------------------------- Publish
\* len(n.p) for rand.Intn, which panics when the length is 0.  n.p is read
\* without the lock; the slice read here is kept in lp.
PublishPick(t) ==
    /\ ~aborted
    /\ th[t].pc = "idle"
    /\ IF Len(p) = 0
       THEN /\ aborted' = TRUE
            /\ th' = [th EXCEPT ![t] = [Idle EXCEPT !.pc = "pub_pick",
                                        !.res = "panic"]]
       ELSE /\ UNCHANGED aborted
            /\ th' = [th EXCEPT ![t] = [Idle EXCEPT !.pc = "pub_send",
                                        !.lp = p]]
    /\ UNCHANGED <<nm, nsqdTCPAddrs, lookupdHTTPAddrs, lock, running, p, c,
                   subscribers, producers, consumers, calls>>

\* a Publish that uses the synchronous sends whatever the options say
PublishDispatch_EmulatesAsync(prod, doneChan, delay) ==
    IF delay > 0
    THEN << [p |-> prod, op |-> "DeferredPublish"] >>
    ELSE << [p |-> prod, op |-> "Publish"] >>

\* the sends Publish invokes on producer prod once Marshal has succeeded;
\* doneChan says that the async completion channel is not nil
PublishDispatch(prod, doneChan, delay) ==
    IF doneChan
    THEN IF delay > 0
         THEN << [p |-> prod, op |-> "DeferredPublishAsync"] >>
         ELSE << [p |-> prod, op |-> "PublishAsync"] >>
    ELSE IF delay > 0
         THEN << [p |-> prod, op |-> "DeferredPublish"] >>
         ELSE << [p |-> prod, op |-> "Publish"] >>

\* n.p[idx] with the idx rand.Intn drew, then Marshal and the send on the
\* producer.  The slice indexed is the one PublishPick read or the one n.p
\* holds now (the two reads race with Connect and Disconnect); an index past
\* its end panics.
PublishSend(t, in) ==
    /\ ~aborted
    /\ th[t].pc = "pub_send"
    /\ \E idx \in 1..Len(th[t].lp), src \in {th[t].lp, p} :
         IF idx > Len(src)
         THEN /\ aborted' = TRUE
              /\ th' = [th EXCEPT ![t].res = "panic"]
         ELSE /\ UNCHANGED aborted
              /\ \E marshalOk \in BOOLEAN, sendOk \in BOOLEAN :
                   th' = [th EXCEPT ![t] =
                            IF marshalOk
                            THEN [Idle EXCEPT !.pc = "pub_ret",
                                    !.popts = in,
                                    !.sent = PublishDispatch(src[idx],
                                                in.async, in.delay),
                                    !.res = IF sendOk THEN "ok"
                                            ELSE "send error"]
                            ELSE [Idle EXCEPT !.pc = "pub_ret",
                                    !.popts = in,
                                    !.res = "marshal error"]]
    /\ UNCHANGED <<nm, nsqdTCPAddrs, lookupdHTTPAddrs, lock, running, p, c,
                   subscribers, producers, consumers, calls>>

\* Publish returns what Marshal or the send returned
PublishReturn(t) ==
    /\ ~aborted
    /\ th[t].pc = "pub_ret"
    /\ th' = [th EXCEPT ![t] = Idle]
    /\ UNCHANGED <<nm, nsqdTCPAddrs, lookupdHTTPAddrs, lock, running, p, c,
                   subscribers, producers, consumers, calls, aborted>>

\* ------------------------------------------------------------- Subscribe
\* concurrency, maxInFlight of a Subscribe call from its two options
\* (0: the option is absent)
Concurrency(concOpt) ==
    IF concOpt # 0 THEN concOpt ELSE DefaultConcurrentHandlers

\* a max-in-flight that follows the concurrency only
MaxInFlight_IgnoresOption(concOpt, mifOpt) ==
    IF concOpt # 0 THEN concOpt ELSE DefaultConcurrentHandlers

MaxInFlight(concOpt, mifOpt) ==
    IF mifOpt # 0 THEN mifOpt
    ELSE IF concOpt # 0 THEN concOpt ELSE DefaultConcurrentHandlers

\* Subscribe up to the read of n.c in "append(n.c, sub)": options, channel
\* name, NewConsumer, AddConcurrentHandlers, the attach and the new record.
\* No lock is taken.  The handler h is the closure this call builds; it is
\* named after the consumer it is first handed to.
SubscribeOpen(t, topic, in) ==
    /\ ~aborted
    /\ th[t].pc = "idle"
    /\ \E attachOk \in BOOLEAN :
         LET cm == Len(consumers) + 1
             sub == Len(subscribers) + 1
             queue == in.Queue
             concOpt == in.conc
             mifOpt == in.mif
         IN  /\ IF ~ValidTopicName(topic)
                THEN /\ attachOk
                     /\ UNCHANGED <<consumers, subscribers, th, calls>>
                ELSE /\ calls < MaxCalls
                     /\ calls' = calls + 1
                     /\ consumers' = Append(consumers,
                          [topic |-> topic,
                           channel |-> Channel(queue, cm),
                           h |-> cm,
                           n |-> Concurrency(concOpt),
                           mif |-> MaxInFlight(concOpt, mifOpt),
                           stopped |-> FALSE])
                     /\ IF ~attachOk
                        THEN UNCHANGED <<subscribers, th>>
                        ELSE /\ subscribers' = Append(subscribers,
                                  [topic |-> topic,
                                   opts |-> in,
                                   c |-> cm,
                                   h |-> cm,
                                   n |-> Concurrency(concOpt),
                                   unsub |-> FALSE])
                             /\ th' = [th EXCEPT ![t] = [Idle EXCEPT
                                   !.pc = "sub_append", !.sub = sub,
                                   !.rng = c, !.newc = {cm}]]
    /\ UNCHANGED <<nm, nsqdTCPAddrs, lookupdHTTPAddrs, lock, running, p, c,
                   producers, aborted>>

\* the write of "n.c = append(n.c, sub)", with the slice read before it
SubscribeAppend(t) ==
    /\ ~aborted
    /\ th[t].pc = "sub_append"
    /\ c' = Append(th[t].rng, th[t].sub)
    /\ th' = [th EXCEPT ![t] = Idle]
    /\ UNCHANGED <<nm, nsqdTCPAddrs, lookupdHTTPAddrs, lock, running, p,
                   subscribers, producers, consumers, calls, aborted>>

\* an Unsubscribe that also takes the record out of the broker's list
Unsubscribe_RemovesRecord(t) ==
    /\ ~aborted
    /\ th[t].pc = "idle"
    /\ \E s \in 1..Len(subscribers) :
         /\ \A u \in Threads : th[u].sub # s
         /\ ~(subscribers[s].unsub /\ consumers[subscribers[s].c].stopped)
         /\ consumers' = Stop(consumers, subscribers[s].c)
         /\ subscribers' = [subscribers EXCEPT ![s].unsub = TRUE]
         /\ c' = SelectSeq(c, LAMBDA x : x # s)
    /\ UNCHANGED <<nm, nsqdTCPAddrs, lookupdHTTPAddrs, lock, running, p,
                   producers, calls, aborted, th>>

\* subscriber.Unsubscribe on a handle a Subscribe call has returned:
\* s.c.Stop(), which does nothing to a consumer that is already stopped.
\* unsub notes that the caller has cancelled the subscription.
Unsubscribe(t) ==
    /\ ~aborted
    /\ th[t].pc = "idle"
    /\ \E s \in 1..Len(subscribers) :
         /\ \A u \in Threads : th[u].sub # s
         /\ ~(subscribers[s].unsub /\ consumers[subscribers[s].c].stopped)
         /\ consumers' = Stop(consumers, subscribers[s].c)
         /\ subscribers' = [subscribers EXCEPT ![s].unsub = TRUE]
    /\ UNCHANGED <<nm, nsqdTCPAddrs, lookupdHTTPAddrs, lock, running, p, c,
                   producers, calls, aborted, th>>

\* ------------------------------------------------- the dispatch handler
\* the options captured by the dispatch handler h that a Subscribe built
HandlerOptions(h) ==
    subscribers[CHOOSE s \in 1..Len(subscribers) : subscribers[s].h = h].opts

\* a consumer that is not stopped hands a message to its handler
Deliver(k, bodyOk) ==
    /\ ~aborted
    /\ nm.pc \in {"none", "shim_ret"}
    /\ ~consumers[k].stopped
    /\ \E s \in 1..Len(subscribers) : subscribers[s].h = consumers[k].h
    /\ nm' = [NoMessage EXCEPT !.pc = "shim_enter", !.h = consumers[k].h,
                               !.bodyOk = bodyOk]
    /\ UNCHANGED <<nsqdTCPAddrs, lookupdHTTPAddrs, lock, running, p, c,
                   subscribers, producers, consumers, calls, aborted, th>>

\* a dispatch handler that never disables the automatic acknowledgement
ShimEnter_KeepsAutoResponse ==
    /\ ~aborted
    /\ nm.pc = "shim_enter"
    /\ nm' = [nm EXCEPT !.pc = "shim_decode"]
    /\ UNCHANGED <<nsqdTCPAddrs, lookupdHTTPAddrs, lock, running, p, c,
                   subscribers, producers, consumers, calls, aborted, th>>

\* "if !options.AutoAck { nm.DisableAutoResponse() }"
ShimEnter ==
    /\ ~aborted
    /\ nm.pc = "shim_enter"
    /\ nm' = [nm EXCEPT !.pc = "shim_decode",
                        !.autoResponse =
                            IF ~HandlerOptions(nm.h).AutoAck THEN FALSE ELSE @]
    /\ UNCHANGED <<nsqdTCPAddrs, lookupdHTTPAddrs, lock, running, p, c,
                   subscribers, producers, consumers, calls, aborted, th>>

\* a dispatch handler that calls the handler whatever Unmarshal returned
ShimDecode_IgnoresError ==
    /\ ~aborted
    /\ nm.pc = "shim_decode"
    /\ nm' = [nm EXCEPT !.pc = "shim_handler"]
    /\ UNCHANGED <<nsqdTCPAddrs, lookupdHTTPAddrs, lock, running, p, c,
                   subscribers, producers, consumers, calls, aborted, th>>

\* Unmarshal(nm.Body, &m): its error is returned
ShimDecode ==
    /\ ~aborted
    /\ nm.pc = "shim_decode"
    /\ nm' = IF nm.bodyOk
             THEN [nm EXCEPT !.pc = "shim_handler"]
             ELSE [nm EXCEPT !.pc = "shim_ret", !.res = "decode error"]
    /\ UNCHANGED <<nsqdTCPAddrs, lookupdHTTPAddrs, lock, running, p, c,
                   subscribers, producers, consumers, calls, aborted, th>>

\* publication.Ack: p.nm.Finish()
Ack(m) == [m EXCEPT !.finished = @ + 1]

RECURSIVE AckTimes(_, _)
AckTimes(m, times) == IF times = 0 THEN m ELSE AckTimes(Ack(m), times - 1)

\* "return handler(&publication{...})": the caller's handler runs, calls
\* Ack() on the publication as often as it likes and returns nil or an
\* error, which the dispatch handler returns
ShimHandler ==
    /\ ~aborted
    /\ nm.pc = "shim_handler"
    /\ \E acks \in 0..MaxAcks, hres \in {"nil", "handler error"} :
         nm' = [AckTimes(nm, acks) EXCEPT !.pc = "shim_ret",
                   !.handled = @ + 1, !.acked = acks, !.hres = hres,
                   !.res = hres]
    /\ UNCHANGED <<nsqdTCPAddrs, lookupdHTTPAddrs, lock, running, p, c,
                   subscribers, producers, consumers, calls, aborted, th>>

\* callers that connect, disconnect, subscribe and unsubscribe.  Publish
\* reads n.p and nothing else, and writes nothing; it runs against Connect
\* and Disconnect in NextPublish.
Next ==
    \/ \E t \in Threads : ConnectConsumer(t)
    \/ \E t \in Threads : ConnectCommit(t)
    \/ \E t \in Threads : ConnectReturn(t)
    \/ \E t \in Threads : DisconnectEnter(t)
    \/ \E t \in Threads : DisconnectConsumer(t)
    \/ \E t \in Threads : DisconnectSetP(t)
    \/ \E t \in Threads : DisconnectSetRunning(t)
    \/ \E t \in Threads : DisconnectReturn(t)
    \/ \E t \in Threads, topic \in Topics, in \in SubscribeInputs :
          SubscribeOpen(t, topic, in)
    \/ \E t \in Threads : SubscribeAppend(t)
    \/ \E t \in Threads : Unsubscribe(t)
    \/ \E t \in Threads : ConnectEnter(t)

Spec == Init /\ [][Next]_vars

\* callers that connect, disconnect and publish, with every combination of
\* the publish options
NextPublish ==
    \/ \E t \in Threads : ConnectEnter(t)
    \/ \E t \in Threads : ConnectCommit(t)
    \/ \E t \in Threads : ConnectReturn(t)
    \/ \E t \in Threads : DisconnectEnter(t)
    \/ \E t \in Threads : DisconnectSetP(t)
    \/ \E t \in Threads : DisconnectSetRunning(t)
    \/ \E t \in Threads : DisconnectReturn(t)
    \/ \E t \in Threads : PublishPick(t)
    \/ \E t \in Threads, in \in AllPublishInputs : PublishSend(t, in)
    \/ \E t \in Threads : PublishReturn(t)

SpecPublish == Init /\ [][NextPublish]_vars

\* callers that only subscribe, with every combination of the concurrency
\* and max-in-flight options
NextSubscribe ==
    \/ \E t \in Threads, topic \in Topics, in \in AllSubscribeInputs :
          SubscribeOpen(t, topic, in)
    \/ \E t \in Threads : SubscribeAppend(t)

SpecSubscribe == Init /\ [][NextSubscribe]_vars

\* callers that only subscribe, and the consumers handing messages to the
\* dispatch handlers
NextDispatch ==
    \/ \E t \in Threads, topic \in Topics, in \in SubscribeInputs :
          SubscribeOpen(t, topic, in)
    \/ \E t \in Threads : SubscribeAppend(t)
    \/ \E k \in 1..Len(consumers), bodyOk \in BOOLEAN : Deliver(k, bodyOk)
    \/ ShimEnter
    \/ ShimDecode
    \/ ShimHandler

SpecDispatch == Init /\ [][NextDispatch]_vars

\* ================================================================ claims
\* positions inside Connect
ConnectPcs == {"conn_cons", "conn_ret"}

\* the goroutine is about to return success from a Connect that opened handles
ConnectedByWork(t) ==
    th[t].pc = "conn_ret" /\ th[t].res = "ok" /\ th[t].newp # {}

\* with the mutex free, running is true exactly when n.p is non-empty
RunningIffProducers == (lock = NoOne) => (running <=> Len(p) > 0)

\* C1: with the mutex free, running is true iff the producer list is
\* non-empty, and no Publish reads an empty producer list (pc "pub_pick" is
\* the Publish that found len(n.p) = 0) while running is true.
C1_NoPartialView ==
    /\ RunningIffProducers
    /\ \A t \in Threads : th[t].pc = "pub_pick" => ~running

\* C2: a Connect about to return success leaves running true and as many
\* producer handles in n.p as the broker has addresses; a Disconnect about
\* to return leaves running false and n.p empty.
C2_ConnectDisconnectPost ==
    \A t \in Threads :
      /\ (th[t].pc = "conn_ret" /\ th[t].res = "ok")
            => (running /\ Len(p) = Len(nsqdTCPAddrs))
      /\ (th[t].pc = "disc_ret") => (~running /\ Len(p) = 0)

\* C2 witness: on a broker with two addresses a Connect that did the work
\* returns success after an earlier Disconnect stopped a producer
C2_Witness ==
    \E t \in Threads :
      /\ ConnectedByWork(t)
      /\ Len(nsqdTCPAddrs) = 2
      /\ \E k \in 1..Len(producers) : producers[k].stopped

\* C3: a Publish that finds the producer pool empty is rejected with an
\* error; it never panics (no goroutine ends in a panic, the process is
\* not aborted).
C3_PublishRejectsEmptyPool ==
    /\ ~aborted
    /\ \A t \in Threads : th[t].res # "panic"

\* C4: every step of a goroutine that changes running, the producer list,
\* the subscription list or a field of an existing record is taken while
\* that goroutine holds the mutex.
C4_MutationsUnderLock ==
    [][\A t \in Threads :
         (/\ th'[t] # th[t]
          /\ \/ running' # running
             \/ p' # p
             \/ c' # c
             \/ \E s \in 1..Len(subscribers) : subscribers'[s] # subscribers[s])
         => lock = t]_vars

\* C5: a Connect about to return an error leaves running false, the
\* producer list as it was (empty) and every record with the consumer it
\* held before: no record holds a consumer this call opened.
C5_FailedConnectLeavesState ==
    \A t \in Threads :
      (th[t].pc = "conn_ret" /\ th[t].res = "err")
         => /\ ~running
            /\ p = << >>
            /\ \A s \in 1..Len(subscribers) : subscribers[s].c \notin th[t].newc

\* C6: a Connect in which creating or attaching the consumer of a record
\* has failed returns the failure, and running stays false.
C6_ConsumerFailureAbortsConnect ==
    \A t \in Threads :
      (th[t].pc = "conn_ret" /\ th[t].cfail)
         => (th[t].res = "err" /\ ~running)

\* the consumer Subscribe created for record rec: the one its handler is
\* named after
Original(rec) == consumers[rec.h]

\* C7 as stated: when a Connect that did the work is about to return
\* success, every record it walked that the caller has not cancelled holds
\* a live consumer this Connect opened, with the topic, the channel name and
\* the handler of the consumer Subscribe created.
C7_SameChannelAfterReconnect ==
    \A t \in Threads :
      ConnectedByWork(t) =>
        \A k \in 1..Len(th[t].rng) :
          LET rec == subscribers[th[t].rng[k]]
              cur == consumers[rec.c]
          IN  ~rec.unsub =>
                /\ rec.c \in th[t].newc
                /\ ~cur.stopped
                /\ cur.topic = Original(rec).topic
                /\ cur.h = Original(rec).h
                /\ cur.channel = Original(rec).channel

\* C7 amended: as above, but the channel name is the same only when the
\* caller supplied a group name; a record without one gets an ephemeral
\* channel name that Connect generates anew.
C7_ReattachedConsumer ==
    \A t \in Threads :
      ConnectedByWork(t) =>
        \A k \in 1..Len(th[t].rng) :
          LET rec == subscribers[th[t].rng[k]]
              cur == consumers[rec.c]
          IN  ~rec.unsub =>
                /\ rec.c \in th[t].newc
                /\ ~cur.stopped
                /\ cur.topic = Original(rec).topic
                /\ cur.h = Original(rec).h
                /\ IF Len(rec.opts.Queue) > 0
                   THEN cur.channel = Original(rec).channel
                   ELSE /\ cur.channel.ephemeral
                        /\ cur.channel # Original(rec).channel

\* C7 witness: Subscribe without a group name and Subscribe with one, a
\* Disconnect that stopped the consumer Subscribe made, and a Connect about
\* to return success with a new live consumer in the record
C7_Witness ==
    \E t \in Threads :
      /\ ConnectedByWork(t)
      /\ \E k \in 1..Len(th[t].rng) :
           LET rec == subscribers[th[t].rng[k]]
           IN  /\ ~rec.unsub
               /\ Original(rec).stopped
               /\ rec.c \in th[t].newc
               /\ ~consumers[rec.c].stopped

\* C8: when a Disconnect that found running true is about to return,
\* everything is torn down; in particular no consumer handle made for a
\* record it walked (by Subscribe or by an earlier Connect) is un-stopped.
C8_DisconnectStopsEverything ==
    \A t \in Threads :
      (th[t].pc = "disc_ret" /\ th[t].i > 0)
         => /\ \A j \in 1..Len(p) : producers[p[j]].stopped
            /\ \A k \in 1..Len(consumers) :
                 (\E j \in 1..Len(th[t].rng) :
                     consumers[k].h = subscribers[th[t].rng[j]].h)
                 => consumers[k].stopped

\* C9: a Connect that takes the mutex while running is true goes straight
\* to its return with success, having opened no producer and no consumer,
\* and neither that step nor its return changes the broker's fields or the
\* handles.
C9_ConnectIdempotent ==
    [][\A t \in Threads :
         /\ (th[t].pc = "idle" /\ th'[t].pc \in ConnectPcs /\ running)
              => /\ th'[t].pc = "conn_ret"
                 /\ th'[t].res = "ok"
                 /\ th'[t].newp = {}
                 /\ th'[t].newc = {}
                 /\ UNCHANGED <<running, p, c, subscribers, producers,
                                consumers>>
         /\ (th[t].pc = "conn_ret" /\ th'[t].pc = "idle")
              => UNCHANGED <<running, p, c, subscribers, producers,
                             consumers>>]_vars

\* C9 witness: a second Connect, with no Disconnect since the first, about
\* to return success without having opened anything
C9_Witness ==
    \E t \in Threads :
      /\ th[t].pc = "conn_ret"
      /\ th[t].res = "ok"
      /\ th[t].newp = {}
      /\ running
      /\ Len(p) > 0
      /\ \A k \in 1..Len(producers) : ~producers[k].stopped

\* C10 as stated: Connect bodies do not overlap, and as long as no
\* Disconnect has torn anything down only the first Connect opens handles:
\* a Connect that has opened producers has opened all there are.
C10_OnlyFirstConnectWorks ==
    /\ Cardinality({t \in Threads : th[t].pc \in ConnectPcs}) <= 1
    /\ \A t \in Threads :
         (/\ th[t].pc \in ConnectPcs
          /\ \A k \in 1..Len(producers) : ~producers[k].stopped)
         => (th[t].newp = {} \/ th[t].newp = 1..Len(producers))

\* C10 amended: Connect bodies do not overlap and run with the mutex held,
\* and handles are opened only by a Connect that found running false:
\* while a Connect is in its loops or returns an error running is false,
\* and a Connect that returns success having opened handles is the one
\* whose producers are in n.p.
C10_SerializedConnects ==
    /\ Cardinality({t \in Threads : th[t].pc \in ConnectPcs}) <= 1
    /\ \A t \in Threads :
         /\ th[t].pc \in ConnectPcs => lock = t
         /\ th[t].pc = "conn_cons" => ~running
         /\ (th[t].pc = "conn_ret" /\ th[t].res = "err") => ~running
         /\ (th[t].pc = "conn_ret" /\ th[t].res = "ok")
              => \/ th[t].newp = {} /\ th[t].newc = {}
                 \/ p = th[t].lp /\ th[t].newp = {p[j] : j \in 1..Len(p)}

\* C10 witness: a Connect about to return success having done the work
\* after an earlier Connect failed and left a producer behind, with no
\* Disconnect in between
C10_Witness ==
    \E t \in Threads :
      /\ ConnectedByWork(t)
      /\ th[t].newp # 1..Len(producers)
      /\ \A k \in 1..Len(producers) : ~producers[k].stopped

\* the configuration of a subscription record: topic, options, dispatch
\* handler and concurrency
RecordConfig(rec) == <<rec.topic, rec.opts, rec.h, rec.n>>

\* the positions of the subscription list are kept by this step, each with
\* the record and the record configuration it had
ListKept ==
    \A k \in 1..Len(c) :
      /\ k <= Len(c')
      /\ c'[k] = c[k]
      /\ RecordConfig(subscribers'[c[k]]) = RecordConfig(subscribers[c[k]])

\* C11: no step of any operation, Disconnect's steps included, removes a
\* record from the subscription list or alters a listed record's topic,
\* options, dispatch handler or concurrency: the list only grows.
C11_ListOnlyGrows == [][ListKept]_vars


\* the producer handles in a producer list
Pool(ps) == {ps[k] : k \in 1..Len(ps)}

\* C12: the step of a Publish whose Marshal succeeded invokes exactly one
\* send, on a producer of the list Publish read from n.p, and the send is
\* Publish without completion channel and without positive delay,
\* DeferredPublish without channel and with delay > 0, PublishAsync with a
\* channel and without positive delay, DeferredPublishAsync with both.
C12_PublishDispatch ==
    [][\A t \in Threads :
         (/\ th[t].pc = "pub_send" /\ th'[t].pc = "pub_ret"
          /\ th'[t].res # "marshal error") =>
            LET o == th'[t].popts
                s == th'[t].sent
            IN  /\ Len(s) = 1
                /\ s[1].p \in Pool(th[t].lp) \cup Pool(p)
                /\ (~o.async /\ ~(o.delay > 0)) => s[1].op = "Publish"
                /\ (~o.async /\ o.delay > 0) => s[1].op = "DeferredPublish"
                /\ (o.async /\ ~(o.delay > 0)) => s[1].op = "PublishAsync"
                /\ (o.async /\ o.delay > 0)
                      => s[1].op = "DeferredPublishAsync"]_vars

\* C12 witness: a Publish with a completion channel and a positive delay
\* has invoked its send on one of two pooled producers
C12_Witness ==
    \E t \in Threads :
      /\ th[t].pc = "pub_ret"
      /\ th[t].popts.async /\ th[t].popts.delay > 0
      /\ Len(th[t].sent) = 1
      /\ Len(p) = 2 /\ th[t].sent[1].p = p[2]


\* the consumers ever attached for a record: the ones handed its handler
ConsumersOf(rec) == {k \in 1..Len(consumers) : consumers[k].h = rec.h}

\* C13: every consumer handed the dispatch handler of a record, the one
\* Subscribe made and each one a Connect made, has it attached with the
\* concurrency the Subscribe call supplied, or with 1 when it supplied none.
C13_ConcurrencyOfEveryConsumer ==
    \A s \in 1..Len(subscribers) :
      \A k \in ConsumersOf(subscribers[s]) :
        consumers[k].n = IF subscribers[s].opts.conc # 0
                         THEN subscribers[s].opts.conc
                         ELSE 1

\* C13 witness: a subscription made with concurrency 4 holds a consumer
\* that a Connect made for it, next to the one Subscribe made
C13_Witness ==
    \E s \in 1..Len(subscribers) :
      /\ subscribers[s].opts.conc = 4
      /\ subscribers[s].c # subscribers[s].h
      /\ subscribers[s].c \in ConsumersOf(subscribers[s])
      /\ consumers[subscribers[s].c].n = 4


\* the concurrency a record's Subscribe call resolved: the one supplied, or
\* the default 1
ResolvedConcurrency(rec) == IF rec.opts.conc # 0 THEN rec.opts.conc ELSE 1

\* C14: the consumer Subscribe made for a record has the supplied
\* max-in-flight option as its max-in-flight when the call supplied one,
\* else the resolved concurrency; and its handler is attached with the
\* resolved concurrency whatever the max-in-flight option is.
C14_MaxInFlightOfSubscribe ==
    \A s \in 1..Len(subscribers) :
      LET rec == subscribers[s]
      IN  /\ Original(rec).mif = IF rec.opts.mif # 0 THEN rec.opts.mif
                                 ELSE ResolvedConcurrency(rec)
          /\ Original(rec).n = ResolvedConcurrency(rec)

\* C14 witness: a Subscribe with concurrency 4 and max-in-flight 2, and one
\* with max-in-flight 6 and no concurrency, have made their consumers
C14_Witness ==
    /\ \E s \in 1..Len(subscribers) :
         /\ subscribers[s].opts.conc = 4 /\ subscribers[s].opts.mif = 2
         /\ Original(subscribers[s]).mif = 2
    /\ \E s \in 1..Len(subscribers) :
         /\ subscribers[s].opts.conc = 0 /\ subscribers[s].opts.mif = 6
         /\ Original(subscribers[s]).n = 1


\* C15: when the dispatch handler returns for a message whose body does not
\* decode, the caller's handler has not been called and the decode error is
\* returned; for a message whose body decodes, the caller's handler has been
\* called exactly once and what it returned is returned.  Before the return
\* the caller's handler is called at most once.
C15_ShimResult ==
    /\ nm.handled <= 1
    /\ (nm.pc = "shim_ret" /\ ~nm.bodyOk)
          => (nm.handled = 0 /\ nm.res = "decode error")
    /\ (nm.pc = "shim_ret" /\ nm.bodyOk)
          => (nm.handled = 1 /\ nm.res = nm.hres
              /\ nm.res \in {"nil", "handler error"})

\* C15 witness: the dispatch handler has returned the decode error of a
\* message, and the consumer holds a handler attached with concurrency 4
C15_Witness ==
    /\ nm.pc = "shim_ret" /\ ~nm.bodyOk /\ nm.res = "decode error"
    /\ consumers[nm.h].n = 4

\* C16: the explicit acknowledgements of a message are the Ack() calls of
\* the caller's handler; with AutoAck the client's automatic
\* acknowledgement stays enabled; without AutoAck it is disabled before the
\* body is decoded and before the caller's handler is called.
C16_AckOnlyByHandler ==
    /\ nm.finished = nm.acked
    /\ nm.pc \in {"shim_enter", "shim_decode"}
          => (nm.handled = 0 /\ nm.res = "none")
    /\ nm.pc # "none" =>
          IF HandlerOptions(nm.h).AutoAck
          THEN nm.autoResponse
          ELSE nm.pc \in {"shim_decode", "shim_handler", "shim_ret"}
                  => ~nm.autoResponse

\* C16 witness: for a subscription without AutoAck the caller's handler has
\* acknowledged a message twice and returned
C16_Witness ==
    /\ nm.pc = "shim_ret"
    /\ ~HandlerOptions(nm.h).AutoAck
    /\ ~nm.autoResponse
    /\ nm.acked = 2 /\ nm.finished = 2


\* this step is an Unsubscribe: a consumer is stopped by no goroutine that
\* is inside a call
UnsubscribeStep ==
    /\ th' = th
    /\ Len(consumers') = Len(consumers)
    /\ consumers' # consumers \/ subscribers' # subscribers

\* a Connect about to return success after doing the work has made a
\* consumer for every record of the list it walked
EveryRecordReattached ==
    \A t \in Threads :
      ConnectedByWork(t) =>
        \A k \in 1..Len(th[t].rng) :
          subscribers[th[t].rng[k]].c \in th[t].newc

\* C17: an Unsubscribe stops the consumer its record holds and leaves the
\* subscription list and the record's configuration as they are; a Connect
\* that does the work makes a consumer for every record it finds in the
\* list, cancelled ones included, and that consumer is live and attached to
\* the record's handler when it is made.
C17_UnsubscribedRecordReconnects ==
    [][/\ UnsubscribeStep =>
            /\ ListKept /\ c' = c
            /\ \E s \in 1..Len(subscribers) :
                 /\ subscribers'[s].unsub
                 /\ consumers'[subscribers[s].c].stopped
       /\ EveryRecordReattached'
       /\ \A t \in Threads :
            (/\ th[t].pc = "conn_cons" /\ th'[t] # th[t]
             /\ Len(consumers') > Len(consumers)) =>
               LET s == th[t].rng[th[t].i]
                   cm == Len(consumers')
               IN  /\ subscribers'[s].c = cm
                   /\ ~consumers'[cm].stopped
                   /\ consumers'[cm].h = subscribers[s].h]_vars

\* C17 witness: a Connect that did the work is about to return success and
\* a subscription the caller cancelled holds a live consumer that this
\* Connect made
C17_Witness ==
    \E t \in Threads :
      /\ ConnectedByWork(t)
      /\ \E k \in 1..Len(c) :
           /\ subscribers[c[k]].unsub
           /\ subscribers[c[k]].c \in th[t].newc
           /\ ~consumers[subscribers[c[k]].c].stopped


\* C18: every subscription record has at most one consumer that is not
\* stopped among the consumers made for it (the one Subscribe made and the
\* ones Connect made), so a Connect that gives a record a new consumer
\* finds the previous one stopped.
C18_AtMostOneLiveConsumer ==
    \A s \in 1..Len(subscribers) :
      Cardinality({k \in ConsumersOf(subscribers[s]) :
                     ~consumers[k].stopped}) <= 1

\* C19: when a Connect is about to return an error, every producer and
\* every consumer it opened in this call has been stopped.
C19_FailedConnectLeaksNothing ==
    \A t \in Threads :
      (th[t].pc = "conn_ret" /\ th[t].res = "err") =>
        /\ \A k \in th[t].newp : producers[k].stopped
        /\ \A k \in th[t].newc : consumers[k].stopped

\* C20: every consumer a Connect made for a subscription record has the
\* max-in-flight of the consumer Subscribe made for that record.
C20_SameMaxInFlightAfterReconnect ==
    \A s \in 1..Len(subscribers) :
      \A k \in ConsumersOf(subscribers[s]) :
        consumers[k].mif = Original(subscribers[s]).mif

============================================================================
